---- MODULE Spec2Model ----
(***************************************************************************)
(* Model of nidaqmx/libnidaqmx.py: the path-pattern compressor             *)
(* make_pattern, the return-code check CHK with its caller CALL, and the   *)
(* properties stated about them.                                           *)
(*                                                                         *)
(* A Python string is a sequence of one-character strings, so that         *)
(* splitting, prefix comparison, integer parsing and formatting are        *)
(* computed character by character as the code computes them.              *)
(*                                                                         *)
(* Two things in make_pattern are not fixed by the source text:            *)
(*  - the interpreter.  Line 15 is the __future__ header of code written   *)
(*    for Python 2 and Python 3.  Under Python 2 the whole file is         *)
(*    imported.  Under Python 3 the functions of lines 1-723 run as they   *)
(*    are written, and the file is imported by the interpreters that have  *)
(*    inspect.getargspec (line 24, removed in 3.11) and accept the class   *)
(*    statement of line 724 (refused since 3.6).  `slst == range(a, b+1)`  *)
(*    (line 331) compares a list with the value of range(): a list under   *)
(*    Python 2 (equal when contiguous), a lazy range object under Python 3 *)
(*    (never equal to a list).  The variable rangeIsList records the       *)
(*    interpreter: TRUE is Python 2.                                       *)
(*  - `list(patterns[prefix])` (line 305) lists a set in hash order.  The  *)
(*    order reaches the recursive call as its `paths`, where it only       *)
(*    decides whether a slash path is seen before the first bare token     *)
(*    (the assert of line 289).  Every set is listed in its own order:     *)
(*    the variable setOrder holds the sets, each named by the prefixes     *)
(*    that lead to it from the top-level call, that list a slash path      *)
(*    first; the other sets list a bare token first.                       *)
(*                                                                         *)
(* CHK and CALL are a second state machine, SpecCHK, over the variables    *)
(* entry .. warnings; the driver library is its environment: the code the  *)
(* driver function returns and what each error-text lookup does are        *)
(* chosen from small sets.  rangeIsList tells the interpreter there too:   *)
(* under Python 3 the name `unicode` of line 261 does not exist and the    *)
(* text of a lookup is a bytes value (line 244).  libFound tells whether   *)
(* _find_library (lines 109-125) found the driver library: without it the  *)
(* module is imported with libnidaqmx = None.                              *)
(*                                                                         *)
(* A Task object is a third state machine, SpecTask, over the variables    *)
(* channel_type .. tpc: its construction, _set_channel_type, the three     *)
(* register_*_event methods, clear and __del__.  A constructed Task        *)
(* exists under Python 2 only, and SpecTask starts with rangeIsList =      *)
(* TRUE: under Python 3 the class statement of line 724 is refused, or,    *)
(* where it is accepted, __init__ raises NameError at its first CALL       *)
(* (lines 775 and 261).                                                    *)
(***************************************************************************)
EXTENDS Integers, Sequences, FiniteSets, TLC

VARIABLES paths, result, paths2, result2, pc, rangeIsList, setOrder

\* the driver library was found when the module was imported (lines 109-127)
VARIABLE libFound

\* CALL and CHK: how the code is entered, the kind of the argument (none,
\* an int, an ASCII or a non-ASCII unicode string), the position in the
\* code, the locals return_code, buf_size and r of CHK, the text the last
\* successful lookup left in buf, how the call ended, the passes of the
\* lookup loop that asked the driver, the warnings CHK wrote to stderr and
\* the lines CALL wrote there about unicode arguments
VARIABLES entry, argKind, chk_pc, return_code, buf_size, chk_r, text, outcome,
          attempts, warnings, notices

mpvars == <<paths, result, paths2, result2, pc, setOrder>>

chkvars == <<entry, argKind, chk_pc, return_code, buf_size, chk_r, text,
             outcome, attempts, warnings, notices>>

\* a Task: its channel_type, the three _register_*_event_cache attributes,
\* the handle value, the number of DAQmxClearTask calls made for it, and of
\* the last operation: the driver calls it made, the attribute it started
\* from, what it was and how it ended; tpc is the life of the object
VARIABLES channel_type, cache, value, cleared, drv, before, op, tpc

taskvars == <<channel_type, cache, value, cleared, drv, before, op, tpc>>

vars == <<paths, result, paths2, result2, pc, rangeIsList, setOrder,
          libFound,
          entry, argKind, chk_pc, return_code, buf_size, chk_r, text, outcome,
          attempts, warnings, notices,
          channel_type, cache, value, cleared, drv, before, op, tpc>>

(***************************************************************************)
(* Bounds.                                                                 *)
(***************************************************************************)
\* longest input sequence drawn from PathPool
MaxLen == 3

\* the driver return codes are -MaxCode .. MaxCode
MaxCode == 2

\* clear() is called on a task until DAQmxClearTask has run MaxClears times
MaxClears == 2

(***************************************************************************)
(* Characters and strings.                                                 *)
(***************************************************************************)
Digits == {"0","1","2","3","4","5","6","7","8","9"}

\* code point of a character (Python compares strings by code point)
Ord(c) ==
    CASE c = "," -> 44 [] c = "/" -> 47
      [] c = "0" -> 48 [] c = "1" -> 49 [] c = "2" -> 50 [] c = "3" -> 51
      [] c = "4" -> 52 [] c = "5" -> 53 [] c = "6" -> 54 [] c = "7" -> 55
      [] c = "8" -> 56 [] c = "9" -> 57 [] c = ":" -> 58
      [] c = "D" -> 68 [] c = "E" -> 69
      [] c = "a" -> 97 [] c = "b" -> 98 [] c = "e" -> 101 [] c = "i" -> 105
      [] c = "l" -> 108 [] c = "n" -> 110 [] c = "o" -> 111 [] c = "p" -> 112 [] c = "q" -> 113
      [] c = "r" -> 114 [] c = "t" -> 116 [] c = "v" -> 118 [] c = "x" -> 120
      [] c = "{" -> 123 [] c = "}" -> 125

\* Python's str < str
RECURSIVE StrLess(_, _)
StrLess(a, b) ==
    IF b = <<>> THEN FALSE
    ELSE IF a = <<>> THEN TRUE
    ELSE IF Head(a) = Head(b) THEN StrLess(Tail(a), Tail(b))
    ELSE Ord(Head(a)) < Ord(Head(b))

\* sep.join(strs)
RECURSIVE join(_, _)
join(sep, strs) ==
    IF strs = <<>> THEN <<>>
    ELSE IF Len(strs) = 1 THEN strs[1]
    ELSE strs[1] \o sep \o join(sep, Tail(strs))

\* c in s
Contains(s, c) == \E k \in 1..Len(s) : s[k] = c

\* s[i:] and s[:i] with Python's 0-based index i
From(s, i) == SubSeq(s, i + 1, Len(s))
Upto(s, i) == SubSeq(s, 1, i)

\* path.startswith('/') then path[1:]                        (lines 284-285)
StripSlash(path) ==
    IF Len(path) > 0 /\ path[1] = "/" THEN Tail(path) ELSE path

\* path.split('/', 1)                                            (line 286)
split1(path) ==
    IF Contains(path, "/")
    THEN LET k == CHOOSE k \in 1..Len(path) :
                     /\ path[k] = "/"
                     /\ \A j \in 1..(k - 1) : path[j] # "/"
         IN <<SubSeq(path, 1, k - 1), SubSeq(path, k + 1, Len(path))>>
    ELSE <<path>>

\* the while loop of lines 292-296: index of the first digit of word
\* mutant: the scan for the first digit looks at the first character only
FirstDigit_one(word) ==
    IF word = <<>> \/ word[1] \in Digits THEN 0 ELSE 1

FirstDigit(word) ==
    IF \E k \in 1..Len(word) : word[k] \in Digits
    THEN (CHOOSE k \in 1..Len(word) :
             /\ word[k] \in Digits
             /\ \A j \in 1..(k - 1) : word[j] \notin Digits) - 1
    ELSE Len(word)

DigitVal(c) == Ord(c) - 48

\* int(s) succeeds on a non-empty run of decimal digits (the pool holds no
\* sign, blank or underscore); anything else raises ValueError
IntOk(s) == Len(s) > 0 /\ \A k \in 1..Len(s) : s[k] \in Digits

RECURSIVE IntAcc(_, _)
IntAcc(s, acc) ==
    IF s = <<>> THEN acc ELSE IntAcc(Tail(s), acc * 10 + DigitVal(Head(s)))

int(s) == IntAcc(s, 0)

DigitChar(d) == CHOOSE c \in Digits : DigitVal(c) = d

\* str(n) and '%s' % n for n >= 0: decimal, no leading zeros
RECURSIVE str(_)
str(n) ==
    IF n < 10 THEN <<DigitChar(n)>>
    ELSE str(n \div 10) \o <<DigitChar(n % 10)>>

(***************************************************************************)
(* Outcomes of a call: a string, the sentinel None, or an exception.       *)
(***************************************************************************)
RetStr(s)  == [kind |-> "str",   val |-> s,    exc |-> "-", fallback |-> FALSE]
RetNone    == [kind |-> "None",  val |-> <<>>, exc |-> "-", fallback |-> FALSE]
Raise(e)   == [kind |-> "raise", val |-> <<>>, exc |-> e,   fallback |-> FALSE]
\* the outermost call's enumeration of its input (line 316)
Fallback(s) == [kind |-> "str",   val |-> s,    exc |-> "-", fallback |-> TRUE]

(***************************************************************************)
(* make_pattern, first loop (lines 281-302): group the paths by prefix.    *)
(* patterns is the dict as a set of <<prefix, suffix>> pairs.              *)
(***************************************************************************)
\* mutant: the set of a prefix is created anew for every path (the test
\* `if l is None` of line 300 dropped), so only the last suffix is kept
RECURSIVE GroupPaths_reset(_, _, _, _)
GroupPaths_reset(ps, k, patterns, flag) ==
    IF k > Len(ps) THEN [patterns |-> patterns, flag |-> flag, failed |-> FALSE]
    ELSE LET path     == StripSlash(ps[k])
             splitted == split1(path)
             put(pre, suf) == {q \in patterns : q[1] # pre} \cup {<<pre, suf>>}
         IN IF Len(splitted) = 1
            THEN IF patterns # {} /\ ~flag
                 THEN [patterns |-> patterns, flag |-> flag, failed |-> TRUE]
                 ELSE LET word == splitted[1]
                          i    == FirstDigit(word)
                      IN GroupPaths_reset(ps, k + 1,
                             put(Upto(word, i), From(word, i)), TRUE)
            ELSE GroupPaths_reset(ps, k + 1,
                     put(splitted[1], splitted[2]), flag)

\* mutant: the leading '/' of a path is kept (lines 284-285 dropped)
RECURSIVE GroupPaths_nostrip(_, _, _, _)
GroupPaths_nostrip(ps, k, patterns, flag) ==
    IF k > Len(ps) THEN [patterns |-> patterns, flag |-> flag, failed |-> FALSE]
    ELSE LET path     == ps[k]
             splitted == split1(path)
         IN IF Len(splitted) = 1
            THEN IF patterns # {} /\ ~flag
                 THEN [patterns |-> patterns, flag |-> flag, failed |-> TRUE]
                 ELSE LET word == splitted[1]
                          i    == FirstDigit(word)
                      IN GroupPaths_nostrip(ps, k + 1,
                             patterns \cup {<<Upto(word, i), From(word, i)>>},
                             TRUE)
            ELSE GroupPaths_nostrip(ps, k + 1,
                     patterns \cup {<<splitted[1], splitted[2]>>}, flag)

\* mutant: the assert of line 289 is dropped
RECURSIVE GroupPaths_noassert(_, _, _, _)
GroupPaths_noassert(ps, k, patterns, flag) ==
    IF k > Len(ps) THEN [patterns |-> patterns, flag |-> flag, failed |-> FALSE]
    ELSE LET path     == StripSlash(ps[k])
             splitted == split1(path)
         IN IF Len(splitted) = 1
            THEN LET word == splitted[1]
                     i    == FirstDigit(word)
                 IN GroupPaths_noassert(ps, k + 1,
                        patterns \cup {<<Upto(word, i), From(word, i)>>},
                        TRUE)
            ELSE GroupPaths_noassert(ps, k + 1,
                     patterns \cup {<<splitted[1], splitted[2]>>}, flag)

RECURSIVE GroupPaths(_, _, _, _)
GroupPaths(ps, k, patterns, flag) ==
    IF k > Len(ps) THEN [patterns |-> patterns, flag |-> flag, failed |-> FALSE]
    ELSE LET path     == StripSlash(ps[k])
             splitted == split1(path)
         IN IF Len(splitted) = 1
            THEN IF patterns # {} /\ ~flag
                 THEN [patterns |-> patterns, flag |-> flag, failed |-> TRUE]
                 ELSE LET word == splitted[1]
                          i    == FirstDigit(word)
                      IN GroupPaths(ps, k + 1,
                             patterns \cup {<<Upto(word, i), From(word, i)>>},
                             TRUE)
            ELSE GroupPaths(ps, k + 1,
                     patterns \cup {<<splitted[1], splitted[2]>>}, flag)

Keys(patterns) == {p[1] : p \in patterns}
Suffixes(patterns, prefix) == {p[2] : p \in {q \in patterns : q[1] = prefix}}

\* mutant: the strings in descending order
RECURSIVE SortedStrs_desc(_)
SortedStrs_desc(S) ==
    IF S = {} THEN <<>>
    ELSE LET m == CHOOSE x \in S : \A y \in S \ {x} : StrLess(y, x)
         IN <<m>> \o SortedStrs_desc(S \ {m})

\* sorted(S) for a set of strings
RECURSIVE SortedStrs(_)
SortedStrs(S) ==
    IF S = {} THEN <<>>
    ELSE LET m == CHOOSE x \in S : \A y \in S \ {x} : StrLess(x, y)
         IN <<m>> \o SortedStrs(S \ {m})

\* sorted(int(i) for i in lst): a sorted list, duplicates kept  (line 327)
RECURSIVE SortedInts(_)
SortedInts(S) ==
    IF S = {} THEN <<>>
    ELSE LET m == CHOOSE x \in S : \A y \in S : int(x) <= int(y)
         IN <<int(m)>> \o SortedInts(S \ {m})

\* range(a, b) as a list
RangeList(a, b) == [k \in 1..(IF b > a THEN b - a ELSE 0) |-> a + k - 1]

\* mutant: range() gives a lazy object, which no list equals
EqualsRange_lazy(slst, env) == FALSE

\* mutant: the `+1` of the upper end is left out
EqualsRange_nolast(slst, env) ==
    env.rangeIsList /\ slst = RangeList(slst[1], slst[Len(slst)])

\* slst == range(slst[0], slst[-1]+1)                          (line 331)
EqualsRange(slst, env) ==
    env.rangeIsList /\ slst = RangeList(slst[1], slst[Len(slst)] + 1)

\* the environment of the recursive call made for the group of prefix: the
\* set of that group is named by the prefixes from the top-level call down
Below(env, prefix) == [env EXCEPT !.at = Append(env.at, prefix)]

\* list(patterns[prefix]) (line 305): the set named env.at in its hash
\* order, bare tokens first in ascending order, or slash paths first in
\* descending order when the set is one of env.slashFirst
RECURSIVE ListOf(_, _)
ListOf(S, env) ==
    IF S = {} THEN <<>>
    ELSE LET bare  == env.at \notin env.slashFirst
             first(x) == IF bare
                         THEN ~Contains(StripSlash(x), "/")
                         ELSE Contains(StripSlash(x), "/")
             C == IF \E x \in S : first(x) THEN {x \in S : first(x)} ELSE S
             m == CHOOSE x \in C : \A y \in C \ {x} :
                     IF bare THEN StrLess(x, y) ELSE StrLess(y, x)
         IN <<m>> \o ListOf(S \ {m}, env)

(***************************************************************************)
(* make_pattern (lines 271-338).                                           *)
(***************************************************************************)
RECURSIVE make_pattern(_, _, _)
RECURSIVE EmitClauses(_, _, _, _, _, _, _)

\* mutant: the recursive result is never put in braces
Wrap_nobrace(prefix, subpattern, flag) ==
    IF flag THEN prefix \o subpattern ELSE prefix \o <<"/">> \o subpattern

\* mutant: the recursive result is always put in braces
Wrap_always(prefix, subpattern, flag) ==
    LET sub == <<"{">> \o subpattern \o <<"}">>
    IN IF flag THEN prefix \o sub ELSE prefix \o <<"/">> \o sub

\* the clause of a group whose recursive result is subpattern (lines 320-325)
Wrap(prefix, subpattern, flag) ==
    LET sub == IF Contains(subpattern, ",")
               THEN <<"{">> \o subpattern \o <<"}">>
               ELSE subpattern
    IN IF flag THEN prefix \o sub ELSE prefix \o <<"/">> \o sub

\* mutant: a single-suffix clause is written without the separator of the mode
Single_noslash(prefix, suffix, flag) == prefix \o suffix

\* the clause of a single-suffix group                          (lines 306-310)
Single(prefix, suffix, flag) ==
    IF flag THEN prefix \o suffix ELSE prefix \o <<"/">> \o suffix

\* mutant: the fallback enumerates the processed (slash-stripped) strings
OnSentinel_stripped(ps, main) ==
    IF main THEN Fallback(join(<<",">>, [k \in 1..Len(ps) |-> StripSlash(ps[k])]))
    ELSE RetNone

\* mutant: every call, nested or not, falls back to the enumeration
OnSentinel_everywhere(ps, main) == Fallback(join(<<",">>, ps))

\* what the outermost and the nested call do with the sentinel (lines 314-319)
OnSentinel(ps, main) ==
    IF main THEN Fallback(join(<<",">>, ps)) ELSE RetNone

\* the empty-prefix group                                       (lines 327-334)
IntGroup(S, env) ==
    IF \E x \in S : ~IntOk(x) THEN Raise("ValueError")
    ELSE LET slst == SortedInts(S)
         IN IF Len(slst) = 1 THEN RetStr(str(slst[1]))
            ELSE IF EqualsRange(slst, env)
                 THEN RetStr(str(slst[1]) \o <<":">> \o str(slst[Len(slst)]))
                 ELSE RetNone

\* second loop (lines 303-338) over keys[k..], r the clauses so far
EmitClauses(keys, k, r, g, ps, main, env) ==
    IF k > Len(keys) THEN RetStr(join(<<",">>, r))
    ELSE LET prefix == keys[k]
             S      == Suffixes(g.patterns, prefix)
         IN IF Cardinality(S) = 1
            THEN LET only == CHOOSE x \in S : TRUE
                 IN EmitClauses(keys, k + 1,
                        Append(r, Single(prefix, only, g.flag)), g, ps, main, env)
            ELSE IF S # {}
            THEN IF prefix # <<>>
                 THEN LET e   == Below(env, prefix)
                          sub == make_pattern(ListOf(S, e), FALSE, e)
                      IN IF sub.kind = "raise" THEN sub
                         ELSE IF sub.kind = "None" THEN OnSentinel(ps, main)
                         ELSE EmitClauses(keys, k + 1,
                                  Append(r, Wrap(prefix, sub.val, g.flag)),
                                  g, ps, main, env)
                 ELSE LET c == IntGroup(S, env)
                      IN IF c.kind = "str"
                         THEN EmitClauses(keys, k + 1, Append(r, c.val),
                                  g, ps, main, env)
                         ELSE c
            ELSE EmitClauses(keys, k + 1, Append(r, prefix), g, ps, main, env)

\* the prefix GroupPaths files a path under
PrefixOf(p) ==
    LET s == split1(StripSlash(p))
    IN IF Len(s) = 1 THEN Upto(s[1], FirstDigit(s[1])) ELSE s[1]

\* the prefixes in the order the dict first saw them
RECURSIVE FirstSeen(_, _)
FirstSeen(ps, seen) ==
    IF ps = <<>> THEN <<>>
    ELSE IF PrefixOf(Head(ps)) \in seen THEN FirstSeen(Tail(ps), seen)
    ELSE <<PrefixOf(Head(ps))>> \o FirstSeen(Tail(ps), seen \cup {PrefixOf(Head(ps))})

\* mutant: the second loop walks patterns.keys() without sorted()
make_pattern_unsorted(ps, main, env) ==
    LET g == GroupPaths(ps, 1, {}, FALSE)
    IN IF g.failed THEN Raise("AssertionError")
       ELSE EmitClauses(FirstSeen(ps, {}), 1, <<>>, g, ps, main, env)

\* mutant: an empty paths gives the sentinel instead of the empty string
make_pattern_emptyNone(ps, main, env) ==
    IF ps = <<>> THEN RetNone
    ELSE LET g == GroupPaths(ps, 1, {}, FALSE)
         IN IF g.failed THEN Raise("AssertionError")
            ELSE EmitClauses(SortedStrs(Keys(g.patterns)), 1, <<>>, g, ps,
                             main, env)

make_pattern(ps, main, env) ==
    LET g == GroupPaths(ps, 1, {}, FALSE)
    IN IF g.failed THEN Raise("AssertionError")
       ELSE EmitClauses(SortedStrs(Keys(g.patterns)), 1, <<>>, g, ps, main, env)

\* `make_pattern(...) or None` as get_info_str formats it (lines 2544-2551):
\* an empty string is replaced by None
OrNone(res) ==
    IF res.kind = "str" /\ res.val = <<>> THEN RetNone ELSE res

(***************************************************************************)
(* The nesting of the recursive invocations (lines 313-314): how many      *)
(* invocations deep below the call for ps the deepest one is.              *)
(***************************************************************************)
RECURSIVE Depth(_, _)
RECURSIVE DepthClauses(_, _, _, _)

\* the second loop from keys[k] on, as EmitClauses walks it: it ends at the
\* first group that returns from the call
DepthClauses(keys, k, g, env) ==
    IF k > Len(keys) THEN 0
    ELSE LET prefix == keys[k]
             S      == Suffixes(g.patterns, prefix)
             rest   == DepthClauses(keys, k + 1, g, env)
         IN IF Cardinality(S) = 1 THEN rest
            ELSE IF prefix # <<>>
            THEN LET e   == Below(env, prefix)
                     lst == ListOf(S, e)
                     d   == 1 + Depth(lst, e)
                 IN IF make_pattern(lst, FALSE, e).kind = "str"
                    THEN IF d > rest THEN d ELSE rest
                    ELSE d
            ELSE IF IntGroup(S, env).kind = "str" THEN rest ELSE 0

Depth(ps, env) ==
    LET g == GroupPaths(ps, 1, {}, FALSE)
    IN IF g.failed THEN 0
       ELSE DepthClauses(SortedStrs(Keys(g.patterns)), 1, g, env)

(***************************************************************************)
(* Inputs.                                                                 *)
(***************************************************************************)
\* the path strings the bounded inputs are built from
PathPool ==
    { <<"D","/","a","1">>,
      <<"D","/","a","2">>,
      <<"D","/","a","3">>,
      <<"D","/","a","0","1">>,
      <<"D","/","b","1">>,
      <<"/","D","/","a","2">>,
      <<"D","/","p","/","l","0">>,
      <<"E","/","a","1">>,
      <<"a","1">>,
      <<"a","2">> }

\* the sixteen paths of _test_make_pattern, in the order the test adds them
TestPaths ==
    << <<"D","e","v","1","/","a","o","1">>,
       <<"D","e","v","1","/","a","o","2">>,
       <<"D","e","v","1","/","a","o","3">>,
       <<"D","e","v","1","/","a","o","4">>,
       <<"D","e","v","1","/","a","o","5">>,
       <<"D","e","v","1","/","a","o","6">>,
       <<"D","e","v","1","/","a","o","7">>,
       <<"D","e","v","0","/","a","o","1">>,
       <<"D","e","v","0","/","a","o","0">>,
       <<"D","e","v","1","/","a","i","1">>,
       <<"D","e","v","1","/","a","i","2">>,
       <<"D","e","v","1","/","a","i","3">>,
       <<"D","e","v","2","/","p","o","r","t","0","/","l","i","n","e","0">>,
       <<"D","e","v","2","/","p","o","r","t","0","/","l","i","n","e","1">>,
       <<"D","e","v","2","/","p","o","r","t","1","/","l","i","n","e","0">>,
       <<"D","e","v","2","/","p","o","r","t","1","/","l","i","n","e","1">> >>

\* how many of TestPaths each of the seven asserts of the test passes
TestLens == <<7, 8, 9, 12, 13, 14, 16>>

TestInput(k) == SubSeq(TestPaths, 1, TestLens[k])

\* the seven strings the test expects
TestExpected ==
    << <<"D","e","v","1","/","a","o","1",":","7">>,
       <<"D","e","v","0","/","a","o","1",",","D","e","v","1","/","a","o","1",":","7">>,
       <<"D","e","v","0","/","a","o","0",":","1",",","D","e","v","1","/","a","o","1",":","7">>,
       <<"D","e","v","0","/","a","o","0",":","1",",","D","e","v","1","/","{","a","i","1",":","3",",","a","o","1",":","7","}">>,
       <<"D","e","v","0","/","a","o","0",":","1",",","D","e","v","1","/","{","a","i","1",":","3",",","a","o","1",":","7","}",",","D","e","v","2","/","p","o","r","t","0","/","l","i","n","e","0">>,
       <<"D","e","v","0","/","a","o","0",":","1",",","D","e","v","1","/","{","a","i","1",":","3",",","a","o","1",":","7","}",",","D","e","v","2","/","p","o","r","t","0","/","l","i","n","e","0",":","1">>,
       <<"D","e","v","0","/","a","o","0",":","1",",","D","e","v","1","/","{","a","i","1",":","3",",","a","o","1",":","7","}",",","D","e","v","2","/","{","p","o","r","t","0","/","l","i","n","e","0",":","1",",","p","o","r","t","1","/","l","i","n","e","0",":","1","}">> >>

\* further inputs: a failing group next to a compressible one, failure below
\* the second level, suffixes of more than one digit, tokens without an
\* alpha prefix, empty suffixes, a doubled slash, and a gap in an input
\* with a leading slash and a repeated path
ExtraInputs ==
    { << <<"a","1">>, <<"a","1","x">> >>,
      << <<"a","1","x">>, <<"a","2">>, <<"a","3">> >>,
      << <<"D","/","a","1">>, <<"D","/","a","3">>, <<"E","/","a","1">>, <<"E","/","a","2">> >>,
      << <<"D","/","a","1">>, <<"D","/","a","2">>, <<"D","/","b","1">>, <<"D","/","b","2">> >>,
      << <<"D","/","p","/","l","0">>, <<"D","/","p","/","l","2">>, <<"D","/","q","/","l","0">>, <<"D","/","q","/","l","1">> >>,
      << <<"D","/","p","/","l","0">>, <<"D","/","p","/","l","1">> >>,
      << <<"D","/","p","/","l","0">>, <<"D","/","p","/","l","1">>, <<"D","/","q","/","l","0">>, <<"D","/","q","/","l","1">> >>,
      << <<"a","9">>, <<"a","1","0">> >>,
      << <<"a","1","0">>, <<"a","9">>, <<"a","8">> >>,
      << <<"a","1">>, <<"a","0","1">>, <<"a","2">>, <<"a","3">> >>,
      << <<"1">>, <<"3">> >>,
      << <<"1">>, <<"2">> >>,
      << <<"a">>, <<"a","1">> >>,
      << <<"D","/">> >>,
      << <<"D","/">>, <<"D","/","a","1">> >>,
      << <<"D","/","a","1">>, <<"D","/","/","a","1">> >>,
      << <<"D","/","p","/","a","1">>, <<"D","/","p","/","b","1">> >>,
      << <<"/","/","a","1">> >>,
      << <<"/","D","/","a","1">>, <<"/","D","/","a","2">> >>,
      << <<"a","1">>, <<"D","/","a","2">>, <<"a","2">> >>,
      << <<"a">> >>,
      << <<"/","D","/","a","1">>, <<"D","/","a","3">>, <<"D","/","a","3">> >>,
      << <<"D","/","a","1">>, <<"D","/","p","/","l","0">>,
         <<"E","/","a","1">>, <<"E","/","p","/","l","0">> >>,
      << <<"D","/","a","1">>, <<"D","/","p","/","l","0">>, <<"D","/","p","/","l","1">>,
         <<"E","/","a","1">>, <<"E","/","p","/","q","/","l","0">>,
         <<"E","/","p","/","q","/","l","1">> >> }

Inputs ==
    UNION {[1..m -> PathPool] : m \in 0..MaxLen}
      \cup {TestInput(k) : k \in 1..Len(TestLens)}
      \cup ExtraInputs

\* the suffix GroupPaths files a path under its prefix
SuffixOf(p) ==
    LET s == split1(StripSlash(p))
    IN IF Len(s) = 1 THEN From(s[1], FirstDigit(s[1])) ELSE s[2]

\* the sets below a call on the paths P, itself named at, that hold a bare
\* token and a slash path: the sets whose hash order matters
RECURSIVE MixedSets(_, _)
MixedSets(P, at) ==
    UNION {LET S   == {SuffixOf(p) : p \in {q \in P : PrefixOf(q) = k}}
               pos == Append(at, k)
           IN IF Cardinality(S) < 2 THEN {}
              ELSE (IF /\ \E x \in S : Contains(StripSlash(x), "/")
                       /\ \E x \in S : ~Contains(StripSlash(x), "/")
                    THEN {pos} ELSE {})
                   \cup MixedSets(S, pos) :
           k \in {PrefixOf(p) : p \in P} \ {<<>>}}

\* the hash orders a call on ps can meet: any of its mixed sets may list a
\* slash path first
Orders(ps) == SUBSET MixedSets({ps[k] : k \in 1..Len(ps)}, <<>>)

\* the environment of a top-level call: the interpreter and the hash orders
Env(py2, o) == [rangeIsList |-> py2, slashFirst |-> o, at |-> <<>>]

NoResult == [kind |-> "-", val |-> <<>>, exc |-> "-", fallback |-> FALSE]

CurEnv == Env(rangeIsList, setOrder)

(***************************************************************************)
(* The state machine: one top-level call, then a second call on a          *)
(* rearranged input to compare with.                                       *)
(***************************************************************************)
Init ==
    /\ paths \in Inputs
    /\ rangeIsList \in BOOLEAN
    /\ libFound = TRUE
    /\ setOrder \in Orders(paths)
    /\ result = NoResult
    /\ paths2 = <<>>
    /\ result2 = NoResult
    /\ pc = "start"
    /\ entry = "-" /\ argKind = "none" /\ chk_pc = "-" /\ return_code = 0
    /\ buf_size = 0 /\ chk_r = "unbound" /\ text = "-" /\ outcome = "-"
    /\ attempts = 0 /\ warnings = 0 /\ notices = 0
    /\ channel_type = "None" /\ cache = <<>> /\ value = 0 /\ cleared = 0
    /\ drv = <<>> /\ before = "-" /\ op = "-" /\ tpc = "-"

\* make_pattern(paths)
Call ==
    /\ pc = "start"
    /\ result' = make_pattern(paths, TRUE, CurEnv)
    /\ pc' = "called"
    /\ UNCHANGED <<paths, paths2, result2, rangeIsList, setOrder, libFound>>
    /\ UNCHANGED <<chkvars, taskvars>>

\* the second call runs in the same interpreter; its sets may list in
\* another hash order
SecondCall(ps, label) ==
    /\ paths2' = ps
    /\ \E o \in Orders(ps) :
          result2' = make_pattern(ps, TRUE, Env(rangeIsList, o))
    /\ pc' = label
    /\ UNCHANGED <<paths, result, rangeIsList, setOrder, libFound>>
    /\ UNCHANGED <<chkvars, taskvars>>

\* make_pattern on a permutation of paths: two entries exchanged (every
\* permutation of an input is a chain of such exchanges)
Swap(ps, i, j) ==
    [k \in 1..Len(ps) |-> IF k = i THEN ps[j] ELSE IF k = j THEN ps[i] ELSE ps[k]]

CallPermuted ==
    /\ pc = "called"
    /\ \E i, j \in 1..Len(paths) :
          i < j /\ SecondCall(Swap(paths, i, j), "permuted")

\* make_pattern on paths with entry i repeated at the end
CallRepeated ==
    /\ pc = "called"
    /\ \E i \in 1..Len(paths) : SecondCall(Append(paths, paths[i]), "repeated")

\* a second run of make_pattern on the same paths
CallAgain ==
    /\ pc = "called"
    /\ SecondCall(paths, "again")

\* make_pattern on paths with the leading '/' of each path already removed
CallStripped ==
    /\ pc = "called"
    /\ SecondCall([k \in 1..Len(paths) |-> StripSlash(paths[k])], "stripped")

Next == Call \/ CallPermuted \/ CallRepeated \/ CallAgain \/ CallStripped

Spec == Init /\ [][Next]_vars

TypeOK ==
    /\ pc \in {"start", "called", "permuted", "repeated", "again", "stripped"}
    /\ result.kind \in {"-", "str", "None", "raise"}
    /\ result2.kind \in {"-", "str", "None", "raise"}

(***************************************************************************)
(* CHK (lines 211-249) and CALL (lines 253-269).                           *)
(***************************************************************************)
\* line 53
default_buf_size == 3000

\* the bound of the lookup loop (line 221)
BufLimit == 1000000

\* the codes a driver function returns: 0 success, > 0 warning, < 0 error
Codes == (-MaxCode)..MaxCode

\* the keys of error_map, the codes the header file names (line 207); the
\* driver may return codes the header this module was built from lacks
ErrorMap == {c \in Codes : c % 2 = 0 /\ c # 0}

\* the interpreter: range() is a list under Python 2 only
Python2 == rangeIsList

\* the arguments CALL can be given
ArgKinds == {"none", "int", "unicode", "unicodeNonAscii"}

InitCHK ==
    /\ paths = <<>> /\ result = NoResult /\ paths2 = <<>> /\ result2 = NoResult
    /\ pc = "start" /\ setOrder = {}
    /\ rangeIsList \in BOOLEAN
    /\ libFound \in BOOLEAN
    /\ entry \in {"CALL", "CHK"}
    /\ argKind \in ArgKinds
    /\ return_code \in Codes
    /\ chk_pc = entry
    /\ buf_size = 0
    /\ chk_r = "unbound"
    /\ text = "-"
    /\ outcome = "-"
    /\ attempts = 0
    /\ warnings = 0
    /\ notices = 0
    /\ channel_type = "None" /\ cache = <<>> /\ value = 0 /\ cleared = 0
    /\ drv = <<>> /\ before = "-" /\ op = "-" /\ tpc = "-"

\* how a call ends
Ends(o) == chk_pc' = "done" /\ outcome' = o

\* CALL up to the call of CHK (lines 257-268).  Without the driver library
\* getattr(None, funcname) raises AttributeError (line 258).  The loop over
\* the arguments evaluates the name `unicode`, which Python 3 does not have.
\* Under Python 2 a unicode argument is reported on stderr (line 262) and
\* converted by bytes(a) (line 263), which raises UnicodeEncodeError when it
\* is not ASCII; the line about it is written or, when stderr cannot encode
\* it either, print raises the same error before the line is complete.
\* Then the driver function returns return_code
CALL_Driver ==
    /\ chk_pc = "CALL"
    /\ IF ~libFound
       THEN Ends("AttributeError") /\ UNCHANGED notices
       ELSE IF argKind = "none"
       THEN chk_pc' = "CHK" /\ UNCHANGED <<outcome, notices>>
       ELSE IF ~Python2
       THEN Ends("NameError") /\ UNCHANGED notices
       ELSE IF argKind = "int"
       THEN chk_pc' = "CHK" /\ UNCHANGED <<outcome, notices>>
       ELSE IF argKind = "unicode"
       THEN chk_pc' = "CHK" /\ notices' = notices + 1 /\ UNCHANGED outcome
       ELSE /\ Ends("UnicodeEncodeError")
            /\ notices' \in {notices, notices + 1}
    /\ UNCHANGED <<entry, argKind, return_code, buf_size, chk_r, text,
                   attempts, warnings, rangeIsList, libFound>>
    /\ UNCHANGED <<mpvars, taskvars>>

\* lines 217-220 and, for code 0, line 249 (and line 269 in CALL)
CHK_Enter ==
    /\ chk_pc = "CHK"
    /\ IF return_code = 0
       THEN Ends("return") /\ UNCHANGED buf_size
       ELSE chk_pc' = "loop" /\ buf_size' = default_buf_size
                             /\ UNCHANGED outcome
    /\ UNCHANGED <<entry, argKind, return_code, chk_r, text, attempts,
                   warnings, notices, rangeIsList, libFound>>
    /\ UNCHANGED <<mpvars, taskvars>>

\* one pass of the loop body is under way, with a driver library to ask
InLoop == chk_pc = "loop" /\ buf_size < BufLimit /\ libFound

\* a pass that leaves the loop by `break` (lines 223-233) with r bound to v
Break(v) ==
    /\ attempts' = attempts + 1
    /\ chk_r' = v
    /\ chk_pc' = "report"
    /\ UNCHANGED <<entry, argKind, return_code, buf_size, outcome, warnings,
                   notices, rangeIsList, libFound>>
    /\ UNCHANGED <<mpvars, taskvars>>

\* DAQmxGetExtendedErrorInfo returns 0, or it returns nonzero and
\* DAQmxGetErrorString returns 0: the driver has written its text to buf
LookupOk ==
    /\ InLoop
    /\ Break("zero")
    /\ text' \in {"ascii", "nonascii"}

\* both lookups return nonzero
LookupBothFail ==
    /\ InLoop
    /\ Break("nonzero")
    /\ UNCHANGED text

\* mutant: the buffer grows by default_buf_size instead of doubling
LookupTooSmall_add ==
    /\ chk_pc = "loop" /\ buf_size < BufLimit /\ libFound
    /\ attempts' = attempts + 1
    /\ \E second \in BOOLEAN :
          chk_r' = IF second THEN "nonzero" ELSE chk_r
    /\ buf_size' = buf_size + default_buf_size
    /\ UNCHANGED <<entry, argKind, chk_pc, return_code, text, outcome,
                   warnings, notices, rangeIsList, libFound>>
    /\ UNCHANGED <<mpvars, taskvars>>

\* a pass in which a lookup raises RuntimeError 'Buffer is too small to fit
\* the string' (lines 227-229): the first lookup, r stays as it was, or the
\* second, after the first has bound r to its nonzero result
LookupTooSmall ==
    /\ InLoop
    /\ attempts' = attempts + 1
    /\ \E second \in BOOLEAN :
          chk_r' = IF second THEN "nonzero" ELSE chk_r
    /\ buf_size' = buf_size * 2
    /\ UNCHANGED <<entry, argKind, chk_pc, return_code, text, outcome,
                   warnings, notices, rangeIsList, libFound>>
    /\ UNCHANGED <<mpvars, taskvars>>

\* a pass in which a lookup raises another RuntimeError (lines 230-231)
LookupRaises ==
    /\ InLoop
    /\ attempts' = attempts + 1
    /\ \E second \in BOOLEAN :
          chk_r' = IF second THEN "nonzero" ELSE chk_r
    /\ Ends("NIDAQmxRuntimeError")
    /\ UNCHANGED <<entry, argKind, return_code, buf_size, text, warnings,
                   notices, rangeIsList, libFound>>
    /\ UNCHANGED <<mpvars, taskvars>>

\* the first pass of CHK called without the driver library: the attribute
\* access on None (line 224) raises AttributeError, which the except clause
\* of line 227 does not catch; no lookup is made
LookupNoLibrary ==
    /\ chk_pc = "loop" /\ buf_size < BufLimit /\ ~libFound
    /\ Ends("AttributeError")
    /\ UNCHANGED <<entry, argKind, return_code, buf_size, chk_r, text,
                   attempts, warnings, notices, rangeIsList, libFound>>
    /\ UNCHANGED <<mpvars, taskvars>>

\* the loop condition of line 221 fails
LoopExhausted ==
    /\ chk_pc = "loop" /\ buf_size >= BufLimit
    /\ chk_pc' = "report"
    /\ UNCHANGED <<entry, argKind, return_code, buf_size, chk_r, text, outcome,
                   attempts, warnings, notices, rangeIsList, libFound>>
    /\ UNCHANGED <<mpvars, taskvars>>

\* how lines 234-249 end for the value of r, the code and the text in buf.
\* When r is 0, line 244 wraps buf.value: a TypeError on bytes under
\* Python 3; under Python 2 the join of the unicode literals with the byte
\* strings of the text decodes them as ASCII, a UnicodeDecodeError when the
\* driver wrote a non-ASCII byte
ReportOutcome(r, code, txt) ==
    IF r = "unbound" THEN "UnboundLocalError"
    ELSE IF r = "nonzero"
    THEN IF code < 0
         THEN IF code \in ErrorMap THEN "NIDAQmxRuntimeError" ELSE "KeyError"
         ELSE "return"
    ELSE IF ~Python2 THEN "TypeError"
    ELSE IF txt = "nonascii" THEN "UnicodeDecodeError"
    ELSE IF code < 0 THEN "NIDAQmxRuntimeError"
    ELSE "return"

\* lines 234-249 (and line 269 in CALL): a return with a nonzero code has
\* written one warning
Report ==
    /\ chk_pc = "report"
    /\ Ends(ReportOutcome(chk_r, return_code, text))
    /\ warnings' = IF ReportOutcome(chk_r, return_code, text) = "return"
                   THEN warnings + 1 ELSE warnings
    /\ UNCHANGED <<entry, argKind, return_code, buf_size, chk_r, text,
                   attempts, notices, rangeIsList, libFound>>
    /\ UNCHANGED <<mpvars, taskvars>>

NextCHK ==
    \/ CALL_Driver
    \/ CHK_Enter
    \/ LookupOk
    \/ LookupBothFail
    \/ LookupTooSmall
    \/ LookupRaises
    \/ LookupNoLibrary
    \/ LoopExhausted
    \/ Report

SpecCHK == InitCHK /\ [][NextCHK]_vars

\* CHK is straight-line code: a step that can be taken is taken
LiveSpecCHK == SpecCHK /\ WF_vars(NextCHK)

(***************************************************************************)
(* Task (lines 724-1243): the channel type, the three event-callback       *)
(* caches and the task handle, under Python 2: where a Task is             *)
(* constructed.                                                            *)
(***************************************************************************)
\* the list of line 786
Types == {"AI", "AO", "DI", "DO", "CI", "CO"}

\* the three register_*_event methods
Kinds == {"every_n_samples", "done", "signal"}

\* callbacks: two of four positional arguments, one of three with
\* defaults (None,), one of three without defaults
Funcs == {"f4", "g4", "f3d", "f3"}

\* getargspec(func): the number of arguments, and defaults == (None,)
ArgSpec(func) ==
    [args         |-> IF func \in {"f4", "g4"} THEN 4 ELSE 3,
     defaultsNone |-> func = "f3d"]

\* the signature tests of lines 1077, 1162 and 1239
ValidSignature(kind, func) ==
    IF kind = "done"
    THEN ArgSpec(func).args = 3 /\ ArgSpec(func).defaultsNone
    ELSE ArgSpec(func).args = 4

\* the exceptions CHK raises for a nonzero code, those of ReportOutcome and
\* of LookupRaises under Python 2: line 231 or 236 or 246, line 238,
\* line 234, line 244
CHKRaises ==
    {"NIDAQmxRuntimeError", "KeyError", "UnboundLocalError",
     "UnicodeDecodeError"}

\* how a CALL whose driver function is reached ends: the driver returns 0,
\* it returns a warning code and CHK returns it, or CHK raises on the
\* warning or error code
CallResults == {"zero", "positive"} \cup CHKRaises

\* how CALL ends (lines 253-269): without the driver library line 258
\* raises AttributeError and the driver function is not called; none of
\* the arguments of the CALLs of these methods is unicode
CALLExc(d) ==
    IF ~libFound THEN "AttributeError"
    ELSE IF d \in {"zero", "positive"} THEN "-" ELSE d

\* the driver calls a CALL makes
CALLTrace(kind, cb) ==
    IF libFound THEN << <<kind, cb>> >> ELSE <<>>

\* the value of `CALL(...)==0`
CALLRet(d) == IF CALLExc(d) # "-" THEN "-" ELSE IF d = "zero" THEN "True" ELSE "False"

RegResult(c, t, e, v) == [cache |-> c, drv |-> t, exc |-> e, ret |-> v]

\* mutant: a type that differs from the one set replaces it
set_channel_type_overwrite(ct, t) ==
    IF t \notin Types THEN [channel_type |-> ct, exc |-> "AssertionError"]
    ELSE [channel_type |-> t, exc |-> "-"]

\* Task._set_channel_type (lines 783-790)
set_channel_type(ct, t) ==
    IF t \notin Types THEN [channel_type |-> ct, exc |-> "AssertionError"]
    ELSE IF ct = "None" THEN [channel_type |-> t, exc |-> "-"]
    ELSE IF ct # t THEN [channel_type |-> ct, exc |-> "ValueError"]
    ELSE [channel_type |-> ct, exc |-> "-"]

\* register_*_event(None, ...): the path `func is None`, then lines
\* 1082-1084, 1165-1167, 1242-1243
unregister_event(kind, c, ct, d) ==
    IF kind = "every_n_samples" /\ ct = "None"
    THEN RegResult(c, <<>>, "TypeError", "-")
    ELSE RegResult([c EXCEPT ![kind] = "None"], CALLTrace(kind, "None"),
                   CALLExc(d), CALLRet(d))

\* register_every_n_samples_event (lines 1063-1084), register_done_event
\* (lines 1153-1167), register_signal_event (lines 1223-1243) with a valid
\* signal, options and cb_data left at their defaults; d1 and d2 are how
\* the unregistering and the registering CALL end.  Without the driver
\* library DAQmx is None (line 205) and the maps of lines 1063 and 1223
\* raise AttributeError before anything else
register_event(kind, func, c, ct, d1, d2) ==
    IF ~libFound /\ kind # "done"
    THEN RegResult(c, <<>>, "AttributeError", "-")
    ELSE IF kind = "every_n_samples" /\ ct = "None"
    THEN RegResult(c, <<>>, "TypeError", "-")
    ELSE IF func = "None" THEN unregister_event(kind, c, ct, d2)
    ELSE LET u == IF c[kind] = "None" THEN RegResult(c, <<>>, "-", "-")
                  ELSE IF kind = "signal"
                  THEN RegResult(c, <<>>, "AttributeError", "-")
                  ELSE unregister_event(kind, c, ct, d1)
         IN IF u.exc # "-" THEN [u EXCEPT !.ret = "-"]
            ELSE IF ~ValidSignature(kind, func)
            THEN RegResult(u.cache, u.drv, "ValueError", "-")
            ELSE IF ct = "None"
            THEN RegResult(u.cache, u.drv, "KeyError", "-")
            ELSE RegResult([u.cache EXCEPT ![kind] = func],
                           u.drv \o CALLTrace(kind, func),
                           CALLExc(d2), CALLRet(d2))

NoOp == [name |-> "-", kind |-> "-", arg |-> "-", exc |-> "-", ret |-> "-",
         refused |-> FALSE]

InitTask ==
    /\ paths = <<>> /\ result = NoResult /\ paths2 = <<>> /\ result2 = NoResult
    /\ pc = "start" /\ setOrder = {}
    /\ entry = "-" /\ argKind = "none" /\ chk_pc = "-" /\ return_code = 0
    /\ buf_size = 0 /\ chk_r = "unbound" /\ text = "-" /\ outcome = "-"
    /\ attempts = 0 /\ warnings = 0 /\ notices = 0
    /\ rangeIsList = TRUE
    /\ libFound \in BOOLEAN
    /\ channel_type \in {"None"} \cup Types
    /\ cache = [k \in Kinds |-> "None"]
    /\ value = 0
    /\ cleared = 0
    /\ drv = <<>>
    /\ before = "-"
    /\ op = NoOp
    /\ tpc = "new"

OtherUnchanged == UNCHANGED <<mpvars, chkvars, rangeIsList, libFound>>

\* how the CALL of GetTaskName in __init__ ends (line 778) when its driver
\* function is reached: whenever CHK formats its arguments for a warning or
\* for the message of an error (lines 237, 242, 246, 248), the task is among
\* them and __repr__ (line 831) reads the name that is not set yet:
\* AttributeError.  KeyError (line 238), UnicodeDecodeError (line 244),
\* UnboundLocalError (line 234) and the NIDAQmxRuntimeError of line 231 are
\* raised before any formatting
GetTaskNameExc(d) ==
    IF d = "zero" THEN {"-"}
    ELSE IF d = "positive" THEN {"AttributeError"}
    ELSE IF d = "NIDAQmxRuntimeError"
    THEN {"NIDAQmxRuntimeError", "AttributeError"}
    ELSE {d}

\* Task.__init__ (lines 764-781).  str(name) raises UnicodeEncodeError for a
\* non-ASCII unicode name (line 773).  The handle starts as 0
\* and CreateTask writes it; when CHK raises on a warning code the handle is
\* written all the same, on an error code it is not.  When a CALL raises,
\* the object is left to __del__
TaskCreate ==
    /\ tpc = "new"
    /\ \E nonAscii, wrote \in BOOLEAN, d1, d2 \in CallResults :
          LET e0 == IF nonAscii THEN "UnicodeEncodeError" ELSE "-"
              e1 == IF e0 # "-" THEN e0 ELSE CALLExc(d1)
              w  == /\ e0 = "-" /\ libFound
                    /\ \/ d1 \in {"zero", "positive"}
                       \/ wrote /\ d1 # "KeyError"
          IN \E e2 \in IF e1 # "-" THEN {e1}
                       ELSE IF CALLExc(d2) = "AttributeError"
                       THEN {CALLExc(d2)}
                       ELSE GetTaskNameExc(d2) :
                /\ value' = IF w THEN 1 ELSE 0
                /\ tpc' = IF e2 = "-" THEN "live" ELSE "failed"
                /\ op' = [NoOp EXCEPT !.name = "init", !.exc = e2]
    /\ drv' = <<>> /\ before' = "-"
    /\ UNCHANGED <<channel_type, cache, cleared>>
    /\ OtherUnchanged

\* task._set_channel_type(t)
SetChannelType ==
    /\ tpc = "live"
    /\ \E t \in Types \cup {"XX"} :
          LET s == set_channel_type(channel_type, t)
          IN /\ channel_type' = s.channel_type
             /\ op' = [NoOp EXCEPT !.name = "set", !.arg = t, !.exc = s.exc]
    /\ before' = channel_type
    /\ drv' = <<>>
    /\ UNCHANGED <<cache, value, cleared, tpc>>
    /\ OtherUnchanged

\* the CALLs of register_event that reach their driver function
ReachesDriver == libFound

\* the unregistering CALL of a registration is made over a cached callback
Unregisters(kind, func) ==
    func # "None" /\ cache[kind] # "None" /\ kind # "signal"

\* how the CALLs task.register_<kind>_event(func) makes can end: the
\* unregistering one, then the registering one when the first has returned
\* and the signature test has passed; a CALL that is not made, or that does
\* not reach its driver function, has no ending to choose ("zero")
CallEndings(kind, func) ==
    LET D1 == IF ReachesDriver /\ Unregisters(kind, func)
              THEN CallResults ELSE {"zero"}
        D2(d1) == IF /\ ReachesDriver
                     /\ d1 \notin CHKRaises
                     /\ func # "None" => ValidSignature(kind, func)
                  THEN CallResults ELSE {"zero"}
    IN UNION {{<<d1, d2>> : d2 \in D2(d1)} : d1 \in D1}

\* task.register_<kind>_event(func, ...)
RegisterEvent ==
    /\ tpc = "live"
    /\ \E kind \in Kinds, func \in Funcs \cup {"None"} :
       \E d \in CallEndings(kind, func) :
          LET g == register_event(kind, func, cache, channel_type, d[1], d[2])
          IN /\ cache' = g.cache
             /\ drv' = g.drv
             /\ before' = cache[kind]
             /\ op' = [name |-> "register", kind |-> kind, arg |-> func,
                       exc |-> g.exc, ret |-> g.ret,
                       refused |-> (d[1] \in CHKRaises \/ d[2] \in CHKRaises)]
    /\ UNCHANGED <<channel_type, value, cleared, tpc>>
    /\ OtherUnchanged

\* the body of clear (lines 820-823): DAQmxClearTask is called when the
\* handle is not 0; the handle is left as it is
ClearBody ==
    /\ cleared' = IF value # 0 THEN cleared + 1 ELSE cleared
    /\ drv' = <<>> /\ before' = "-"
    /\ UNCHANGED <<channel_type, cache, value>>
    /\ OtherUnchanged

\* task.clear()
Clear ==
    /\ tpc = "live"
    /\ cleared < MaxClears
    /\ ClearBody
    /\ op' = [NoOp EXCEPT !.name = "clear"]
    /\ UNCHANGED tpc

\* __del__ = clear (line 825), on a task whose __init__ returned or raised
Del ==
    /\ tpc \in {"live", "failed"}
    /\ ClearBody
    /\ op' = [NoOp EXCEPT !.name = "del"]
    /\ tpc' = "deleted"

NextTask ==
    \/ TaskCreate
    \/ SetChannelType
    \/ RegisterEvent
    \/ Clear
    \/ Del

SpecTask == InitTask /\ [][NextTask]_vars

(***************************************************************************)
(* Vocabulary of the properties.                                           *)
(***************************************************************************)
HasSlash(p) == Contains(p, "/")

\* all paths contain '/' or none does
ShapeUniform(ps) ==
    \/ \A k \in 1..Len(ps) : HasSlash(ps[k])
    \/ \A k \in 1..Len(ps) : ~HasSlash(ps[k])

\* s.split(c)
RECURSIVE SplitOn(_, _)
SplitOn(s, c) ==
    IF ~Contains(s, c) THEN <<s>>
    ELSE LET k == CHOOSE k \in 1..Len(s) :
                     s[k] = c /\ \A j \in 1..(k - 1) : s[j] # c
         IN <<SubSeq(s, 1, k - 1)>> \o SplitOn(SubSeq(s, k + 1, Len(s)), c)

NoRangeOrBrace(s) ==
    ~Contains(s, ":") /\ ~Contains(s, "{") /\ ~Contains(s, "}")

Called == pc # "start"

(***************************************************************************)
(* C1.  For every non-empty, shape-uniform input the outermost call        *)
(* returns a string: never the sentinel None, never an exception.          *)
(* The code returns None from the outermost call when a top-level group    *)
(* with the empty prefix is not a contiguous range (line 334 does not look *)
(* at _main), and int() raises ValueError on a non-numeric suffix.         *)
(***************************************************************************)
C1_AlwaysString ==
    (Called /\ paths # <<>> /\ ShapeUniform(paths)) => result.kind = "str"

(***************************************************************************)
(* C2.  When the outermost call receives the sentinel from a group's       *)
(* recursive compression, its result is the original input strings, in     *)
(* input order, unmodified and with duplicates, separated by commas.       *)
(***************************************************************************)
C2_FallbackVerbatim ==
    (Called /\ result.fallback) => SplitOn(result.val, ",") = paths

\* a fallback on an input with a leading '/' and a repeated entry
C2_Witness ==
    /\ Called /\ result.fallback
    /\ \E i \in 1..Len(paths) : paths[i][1] = "/"
    /\ \E i, j \in 1..Len(paths) : i < j /\ paths[i] = paths[j]

(***************************************************************************)
(* C3.  Compression is all-or-nothing: a nested call never returns an      *)
(* enumeration, and when the same input makes a nested call return the     *)
(* sentinel, a string returned by the outermost call is the fallback and   *)
(* holds no range and no brace.                                            *)
(***************************************************************************)
C3_AllOrNothing ==
    Called =>
        LET n == make_pattern(paths, FALSE, CurEnv)
        IN /\ ~n.fallback
           /\ n.kind = "None" =>
                 /\ result.kind \in {"str", "None"}
                 /\ result.kind = "str" =>
                       result.fallback /\ NoRangeOrBrace(result.val)

\* a fallback although two of the input paths alone compress to a range
C3_Witness ==
    /\ Called /\ result.fallback
    /\ \E i, j \in 1..Len(paths) :
          LET two == make_pattern(<<paths[i], paths[j]>>, TRUE, CurEnv)
          IN two.kind = "str" /\ ~two.fallback /\ Contains(two.val, ":")

\* a result in compact form: a string that is not the fallback enumeration
Compact(r) == r.kind = "str" /\ ~r.fallback

\* neither call fell back, neither tripped the shape assertion of line 289
BothRegular ==
    /\ ~result.fallback /\ ~result2.fallback
    /\ result.exc # "AssertionError" /\ result2.exc # "AssertionError"

NoDup(ps) == \A i, j \in 1..Len(ps) : i # j => ps[i] # ps[j]

(***************************************************************************)
(* C4.  Order-independence as stated: a permutation of the input gives     *)
(* the same output.  The fallback enumeration keeps the input order, so    *)
(* this fails.                                                             *)
(***************************************************************************)
C4_OrderIndependent ==
    pc = "permuted" => result2 = result

(***************************************************************************)
(* C4 amended.  A permutation of the input gives the same outcome unless   *)
(* one of the two results is the fallback enumeration or one of the two    *)
(* calls trips the mixed-shape assertion.                                  *)
(***************************************************************************)
C4_OrderIndependentCompact ==
    (pc = "permuted" /\ BothRegular) => result2 = result

\* a reordered input of several clauses, compressed both times
C4_Witness ==
    /\ pc = "permuted" /\ paths2 # paths
    /\ Compact(result) /\ Compact(result2)
    /\ Len(SplitOn(result.val, ",")) >= 2

(***************************************************************************)
(* C5.  Idempotence of grouping as stated: the input with an entry         *)
(* repeated gives the same output as the duplicate-free input.  The        *)
(* fallback enumeration keeps the repeated entry, so this fails.           *)
(***************************************************************************)
C5_Idempotent ==
    (pc = "repeated" /\ NoDup(paths)) => result2 = result

(***************************************************************************)
(* C5 amended.  The input with an entry repeated gives the same outcome    *)
(* as the duplicate-free input unless one of the two results is the        *)
(* fallback enumeration or one of the two calls trips the mixed-shape      *)
(* assertion.                                                              *)
(***************************************************************************)
C5_IdempotentCompact ==
    (pc = "repeated" /\ NoDup(paths) /\ BothRegular) => result2 = result

\* a repeated entry in an input of several paths, compressed both times
C5_Witness ==
    /\ pc = "repeated" /\ NoDup(paths) /\ Len(paths) >= 2
    /\ Compact(result) /\ Compact(result2)

(***************************************************************************)
(* The pattern grammar read back: clauses, ranges and braces expanded.     *)
(***************************************************************************)
\* the clauses of a pattern: split at the commas outside braces
RECURSIVE SplitTopFrom(_, _, _)
SplitTopFrom(s, depth, cur) ==
    IF s = <<>> THEN <<cur>>
    ELSE LET c == Head(s)
         IN IF c = "," /\ depth = 0
            THEN <<cur>> \o SplitTopFrom(Tail(s), 0, <<>>)
            ELSE SplitTopFrom(Tail(s),
                     depth + (IF c = "{" THEN 1 ELSE IF c = "}" THEN -1 ELSE 0),
                     Append(cur, c))

SplitTop(s) == SplitTopFrom(s, 0, <<>>)

\* where the trailing run of digits of s starts (Len(s)+1 if there is none)
TrailStart(s) ==
    CHOOSE d \in 1..(Len(s) + 1) :
        /\ \A j \in d..Len(s) : s[j] \in Digits
        /\ d = 1 \/ s[d - 1] \notin Digits

Stem(p) == SubSeq(p, 1, TrailStart(p) - 1)
NumSuffix(p) == SubSeq(p, TrailStart(p), Len(p))

IndexOf(s, c) == CHOOSE k \in 1..Len(s) : s[k] = c /\ \A j \in 1..(k - 1) : s[j] # c

RECURSIVE ExpandPattern(_)
RECURSIVE ExpandClause(_)
RECURSIVE ExpandAll(_)

\* the paths one clause denotes
ExpandClause(c) ==
    IF Contains(c, "{")
    THEN LET k  == IndexOf(c, "{")
             xs == ExpandPattern(SubSeq(c, k + 1, Len(c) - 1))
         IN [i \in 1..Len(xs) |-> SubSeq(c, 1, k - 1) \o xs[i]]
    ELSE IF Contains(c, ":")
    THEN LET k    == IndexOf(c, ":")
             left == SubSeq(c, 1, k - 1)
             a    == int(NumSuffix(left))
             b    == int(SubSeq(c, k + 1, Len(c)))
         IN [i \in 1..(IF b >= a THEN b - a + 1 ELSE 0) |->
                Stem(left) \o str(a + i - 1)]
    ELSE <<c>>

ExpandAll(cs) ==
    IF cs = <<>> THEN <<>> ELSE ExpandClause(Head(cs)) \o ExpandAll(Tail(cs))

\* the paths a pattern denotes, one entry per denotation
ExpandPattern(s) == ExpandAll(SplitTop(s))

Count(xs, x) == Cardinality({k \in 1..Len(xs) : xs[k] = x})

(***************************************************************************)
(* C6.  Round-trip coverage: when the result is not the fallback, every    *)
(* input path (leading '/' removed) is denoted exactly once by the output  *)
(* pattern.  The code writes a range with str(int(suffix)), which loses    *)
(* leading zeros, and strips a leading '/' again at every level.           *)
(***************************************************************************)
C6_RoundTrip ==
    (Called /\ Compact(result)) =>
        \A k \in 1..Len(paths) :
            Count(ExpandPattern(result.val), StripSlash(paths[k])) = 1

(***************************************************************************)
(* Inputs that are one stem followed by decimal suffixes.                  *)
(***************************************************************************)
Stripped(ps) == {StripSlash(ps[k]) : k \in 1..Len(ps)}

Ints(ps) == {int(NumSuffix(p)) : p \in Stripped(ps)}

Min(I) == CHOOSE n \in I : \A m \in I : n <= m
Max(I) == CHOOSE n \in I : \A m \in I : n >= m

\* every path is the same digit-free stem followed by digits, and the
\* suffixes parse to at least two different integers
NumericFamily(ps) ==
    /\ ps # <<>>
    /\ \A p \in Stripped(ps) :
          /\ NumSuffix(p) # <<>>
          /\ \A k \in 1..Len(Stem(p)) : Stem(p)[k] \notin Digits
    /\ \A p, q \in Stripped(ps) : Stem(p) = Stem(q)
    /\ Cardinality(Ints(ps)) >= 2

NoGaps(I) == \A n \in Min(I)..Max(I) : n \in I

\* stem, then 'min:max'
RangeClause(ps) ==
    Stem(StripSlash(ps[1])) \o str(Min(Ints(ps))) \o <<":">> \o str(Max(Ints(ps)))

(***************************************************************************)
(* C7.  Contiguity correctness: for numeric suffix candidates of one       *)
(* group the output is the single range 'min:max' if and only if the       *)
(* parsed integers, duplicates removed, have no gaps.  The code compares   *)
(* the sorted list with its duplicates against range(), and under          *)
(* Python 3 compares a list with a range object.                           *)
(***************************************************************************)
C7_Contiguity ==
    (Called /\ NumericFamily(paths)) =>
        (result = RetStr(RangeClause(paths)) <=> NoGaps(Ints(paths)))

TokenOf(p) == SplitOn(p, "/")[2]

\* every path is the same device, a '/', the same digit-free token and a
\* number without leading zeros, and the numbers are all of a..b, a < b
DeviceRange(ps) ==
    /\ ps # <<>>
    /\ \A k \in 1..Len(ps) :
          /\ ps[k] # <<>> /\ ps[k][1] # "/"
          /\ Len(SplitOn(ps[k], "/")) = 2
          /\ SplitOn(ps[k], "/")[1] # <<>>
          /\ NumSuffix(ps[k]) # <<>>
          /\ \A j \in 1..Len(Stem(TokenOf(ps[k]))) :
                Stem(TokenOf(ps[k]))[j] \notin Digits
          /\ str(int(NumSuffix(ps[k]))) = NumSuffix(ps[k])
          /\ Stem(ps[k]) = Stem(ps[1])
    /\ Cardinality(Ints(ps)) >= 2
    /\ NoGaps(Ints(ps))

MultiClauseGroups(ps) ==
    LET g    == GroupPaths(ps, 1, {}, FALSE)
        keys == SortedStrs(Keys(g.patterns))
    IN {k \in 1..Len(keys) :
          LET S   == Suffixes(g.patterns, keys[k])
              e   == Below(CurEnv, keys[k])
              sub == make_pattern(ListOf(S, e), FALSE, e)
          IN /\ keys[k] # <<>>
             /\ Cardinality(S) >= 2
             /\ sub.kind = "str"
             /\ Len(SplitTop(sub.val)) >= 2}

C10_Braces ==
    (Called /\ Compact(result)) =>
        LET g    == GroupPaths(paths, 1, {}, FALSE)
            keys == SortedStrs(Keys(g.patterns))
        IN \A k \in MultiClauseGroups(paths) :
              LET S   == Suffixes(g.patterns, keys[k])
                  e   == Below(CurEnv, keys[k])
                  sub == make_pattern(ListOf(S, e), FALSE, e)
                  sep == IF g.flag THEN <<>> ELSE <<"/">>
              IN SplitTop(result.val)[k] =
                    keys[k] \o sep \o <<"{">> \o sub.val \o <<"}">>

\* a compressed result with a braced group that holds a range
C10_Witness ==
    /\ Called /\ Compact(result)
    /\ MultiClauseGroups(paths) # {}
    /\ Contains(result.val, ":")

(***************************************************************************)
(* C11.  In every result that is not the fallback, at every recursion      *)
(* level, there is one clause per distinct prefix and the clauses stand    *)
(* in strictly ascending order of their prefixes: the k-th clause begins   *)
(* with the prefix that has exactly k-1 smaller prefixes.                  *)
(***************************************************************************)
StartsWith(s, pre) == Len(s) >= Len(pre) /\ SubSeq(s, 1, Len(pre)) = pre

Prefixes(ps) == {PrefixOf(ps[k]) : k \in 1..Len(ps)}

\* the clauses of val, the compact result for ps, follow the prefixes of ps
ClausesFollowPrefixes(ps, val) ==
    LET cl == SplitTop(val)
    IN /\ Len(cl) = Cardinality(Prefixes(ps))
       /\ \A k \in 1..Len(cl) :
             \E pre \in Prefixes(ps) :
                /\ Cardinality({q \in Prefixes(ps) : StrLess(q, pre)}) = k - 1
                /\ StartsWith(cl[k], pre)

\* the same at this level and in every group handed to a recursive call
RECURSIVE OrderedBelow(_, _, _)
OrderedBelow(ps, r, env) ==
    (r.kind = "str" /\ ~r.fallback) =>
        /\ ClausesFollowPrefixes(ps, r.val)
        /\ LET g == GroupPaths(ps, 1, {}, FALSE)
           IN \A pre \in Keys(g.patterns) \ {<<>>} :
                 LET S == Suffixes(g.patterns, pre)
                     e == Below(env, pre)
                 IN Cardinality(S) >= 2 =>
                       OrderedBelow(ListOf(S, e),
                           make_pattern(ListOf(S, e), FALSE, e), e)

C11_PrefixOrder ==
    (Called /\ paths # <<>>) => OrderedBelow(paths, result, CurEnv)

\* a compact result of several clauses for prefixes that arrive out of order
C11_Witness ==
    /\ Called /\ Compact(result)
    /\ Len(SplitTop(result.val)) >= 2
    /\ \E i, j \in 1..Len(paths) :
          i < j /\ StrLess(PrefixOf(paths[j]), PrefixOf(paths[i]))

(***************************************************************************)
(* C12.  Determinism: two runs of make_pattern on the same input in which  *)
(* every path contains '/' give the same outcome, whatever order the       *)
(* suffix sets handed to the recursive calls are listed in.  A suffix set  *)
(* that holds a bare token and a slash path trips the assertion of line    *)
(* 289 in one listing order and not in the other.                          *)
(***************************************************************************)
C12_Deterministic ==
    (pc = "again" /\ \A k \in 1..Len(paths) : HasSlash(paths[k])) =>
        result2 = result

(***************************************************************************)
(* C13.  For every negative driver return code, CHK, and with it CALL,     *)
(* ends by raising NIDAQmxRuntimeError: it never returns normally and      *)
(* never raises another exception type, whatever the error-text lookups    *)
(* do and whether or not the code is a key of error_map.  The code reads   *)
(* error_map[return_code] without a default, reads r although no lookup    *)
(* may have bound it, under Python 2 decodes the driver's text as ASCII,   *)
(* and under Python 3 wraps a bytes value.                                 *)
(***************************************************************************)
\* CHK has gone past the test of line 217 with a nonzero code and has ended
CheckedNonzero == chk_pc = "done" /\ buf_size > 0

C13_NegativeRaises ==
    (CheckedNonzero /\ return_code < 0) => outcome = "NIDAQmxRuntimeError"

(***************************************************************************)
(* The groups of the outermost call, by position in sorted prefix order.   *)
(***************************************************************************)
GroupsOf(ps) == GroupPaths(ps, 1, {}, FALSE)
KeysOf(ps) == SortedStrs(Keys(GroupsOf(ps).patterns))
SuffixesAt(ps, k) == Suffixes(GroupsOf(ps).patterns, KeysOf(ps)[k])
SepOf(ps) == IF GroupsOf(ps).flag THEN <<>> ELSE <<"/">>

\* the groups with exactly one suffix candidate
SingleGroups(ps) ==
    {k \in 1..Len(KeysOf(ps)) : Cardinality(SuffixesAt(ps, k)) = 1}

OnlySuffix(ps, k) == CHOOSE x \in SuffixesAt(ps, k) : TRUE

\* the recursive result of the k-th group
SubOf(ps, k) ==
    LET e == Below(CurEnv, KeysOf(ps)[k])
    IN make_pattern(ListOf(SuffixesAt(ps, k), e), FALSE, e)

\* the groups with a non-empty prefix and several suffix candidates whose
\* recursive call returns a string
MultiGroups(ps) ==
    {k \in 1..Len(KeysOf(ps)) :
        /\ KeysOf(ps)[k] # <<>>
        /\ Cardinality(SuffixesAt(ps, k)) >= 2
        /\ SubOf(ps, k).kind = "str"}

(***************************************************************************)
(* C14.  A group with exactly one suffix candidate never triggers          *)
(* recursion, range or brace logic: its clause is the prefix, the          *)
(* separator of the mode ('/' in slash mode, nothing in bare-token mode)   *)
(* and the suffix text verbatim.                                           *)
(***************************************************************************)
C14_SingleSuffix ==
    (Called /\ Compact(result) /\ paths # <<>>) =>
        \A k \in SingleGroups(paths) :
            SplitTop(result.val)[k] =
                KeysOf(paths)[k] \o SepOf(paths) \o OnlySuffix(paths, k)

\* a slash-mode result with a single-suffix group whose suffix would
\* compress or normalise if it were processed further
C14_Witness ==
    /\ Called /\ Compact(result)
    /\ \E k \in SingleGroups(paths) :
          /\ SepOf(paths) = <<"/">>
          /\ \/ HasSlash(OnlySuffix(paths, k))
             \/ \E j \in 1..Len(OnlySuffix(paths, k)) :
                   OnlySuffix(paths, k)[j] = "0"

(***************************************************************************)
(* C15.  A single-suffix group whose only suffix candidate is the empty    *)
(* string is emitted as just the prefix, in bare-token mode and in slash   *)
(* mode alike.  In slash mode the code emits the prefix followed by '/'.   *)
(***************************************************************************)
C15_EmptySuffix ==
    (Called /\ Compact(result) /\ paths # <<>>) =>
        \A k \in SingleGroups(paths) :
            OnlySuffix(paths, k) = <<>> =>
                SplitTop(result.val)[k] = KeysOf(paths)[k]

(***************************************************************************)
(* C16.  For a multi-suffix group with a non-empty prefix, a recursive     *)
(* result that is a single clause gets no braces, also when that clause    *)
(* holds a nested braced sub-pattern.  The code tests for a comma anywhere *)
(* in the recursive result, so a nested brace group brings braces.         *)
(***************************************************************************)
C16_BracesOnlyMultiClause ==
    (Called /\ Compact(result)) =>
        \A k \in MultiGroups(paths) :
            Len(SplitTop(SubOf(paths, k).val)) = 1 =>
                SplitTop(result.val)[k] =
                    KeysOf(paths)[k] \o SepOf(paths) \o SubOf(paths, k).val

(***************************************************************************)
(* C16 amended.  For a multi-suffix group with a non-empty prefix, braces  *)
(* are put around the recursive result exactly when it contains a comma:   *)
(* a result without a comma is appended as it is, a result with a comma,   *)
(* be it several clauses or one clause with a nested brace group, is       *)
(* wrapped in one pair of braces.                                          *)
(***************************************************************************)
C16_BracesIffComma ==
    (Called /\ Compact(result)) =>
        \A k \in MultiGroups(paths) :
            LET sub == SubOf(paths, k).val
            IN SplitTop(result.val)[k] =
                  KeysOf(paths)[k] \o SepOf(paths) \o
                     (IF Contains(sub, ",") THEN <<"{">> \o sub \o <<"}">>
                      ELSE sub)

\* a recursive result that is one clause with a nested brace group
C16_Witness ==
    /\ Called /\ Compact(result)
    /\ \E k \in MultiGroups(paths) :
          /\ Len(SplitTop(SubOf(paths, k).val)) = 1
          /\ Contains(SubOf(paths, k).val, ",")

(***************************************************************************)
(* C17.  When a multi-suffix group with the empty prefix holds a suffix    *)
(* candidate that is not a valid integer, the group signals failure        *)
(* through the sentinel and the outermost call returns the fallback        *)
(* enumeration; no exception escapes.  The code calls int() on every       *)
(* candidate without catching ValueError.                                  *)
(***************************************************************************)
\* some call made for ps, this one or a nested one, meets an empty-prefix
\* group of several candidates one of which is not a decimal integer
RECURSIVE BadIntGroupBelow(_, _)
BadIntGroupBelow(ps, env) ==
    LET g == GroupPaths(ps, 1, {}, FALSE)
    IN /\ ~g.failed
       /\ \E pre \in Keys(g.patterns) :
             LET S == Suffixes(g.patterns, pre)
             IN /\ Cardinality(S) >= 2
                /\ IF pre = <<>> THEN \E x \in S : ~IntOk(x)
                   ELSE BadIntGroupBelow(ListOf(S, Below(env, pre)),
                                         Below(env, pre))

C17_NonIntegerFallsBack ==
    (Called /\ BadIntGroupBelow(paths, CurEnv)) =>
        (result.kind = "str" /\ result.fallback)

(***************************************************************************)
(* C18.  When the suffix candidates of one group all parse to the same     *)
(* integer (as '1' and '01' do), the group emits that integer alone: the   *)
(* result is the stem followed by the integer.  The code compares the      *)
(* sorted list, duplicates kept, against range(min, max+1), and fails.     *)
(***************************************************************************)
\* several distinct paths, one digit-free stem, suffixes of one value
SameIntFamily(ps) ==
    /\ ps # <<>>
    /\ \A p \in Stripped(ps) :
          /\ NumSuffix(p) # <<>>
          /\ \A k \in 1..Len(Stem(p)) : Stem(p)[k] \notin Digits
    /\ \A p, q \in Stripped(ps) : Stem(p) = Stem(q)
    /\ Cardinality(Stripped(ps)) >= 2
    /\ Cardinality(Ints(ps)) = 1

C18_SameInteger ==
    (Called /\ SameIntFamily(paths)) =>
        result = RetStr(Stem(StripSlash(paths[1])) \o str(Min(Ints(paths))))

(***************************************************************************)
(* C19.  Leading-slash removal as stated: whenever no fallback occurs,     *)
(* the result for a list equals the result for the same list with the      *)
(* leading '/' of each path already removed.  A path that begins with      *)
(* '//' keeps one '/' after the removal, which the second call removes     *)
(* too, and the two calls may list their suffix sets in different orders.  *)
(***************************************************************************)
C19_StripOnce ==
    (pc = "stripped" /\ ~result.fallback /\ ~result2.fallback) =>
        result2 = result

\* the outcomes make_pattern can have for ps, over the set listing orders
Outcomes(ps) ==
    {make_pattern(ps, TRUE, Env(rangeIsList, o)) : o \in Orders(ps)}

NoDoubleSlash(ps) ==
    \A k \in 1..Len(ps) : ~(Len(ps[k]) >= 2 /\ ps[k][1] = "/" /\ ps[k][2] = "/")

(***************************************************************************)
(* C19 amended.  For a list in which no path begins with '//', the list    *)
(* with the leading '/' of each path already removed has, whenever no      *)
(* fallback occurs, the outcomes of the original list: its result is a     *)
(* result of the original list under the same listing order of the suffix  *)
(* sets.                                                                   *)
(***************************************************************************)
C19_StripOnceSingleSlash ==
    (pc = "stripped" /\ NoDoubleSlash(paths)
        /\ ~result.fallback /\ ~result2.fallback) =>
        /\ result2 \in Outcomes(paths)
        /\ result \in Outcomes(paths2)

\* a list with a path that begins with '/', compressed with and without it
C19_Witness ==
    /\ pc = "stripped" /\ NoDoubleSlash(paths)
    /\ paths2 # paths
    /\ Len(paths) >= 2
    /\ Compact(result) /\ Compact(result2)

(***************************************************************************)
(* C20.  Mixed-shape input is checked asymmetrically within one call.  If  *)
(* the first path holds a '/' and some path is a bare token, the call      *)
(* fails the assertion.  If the first path is a bare token, a later path   *)
(* with a '/' raises nothing in this call's first loop, the call is in     *)
(* bare-token mode, and the clause of a single-suffix group of such a      *)
(* path is the prefix immediately followed by the remainder, without '/'.  *)
(***************************************************************************)
\* the shape of a path as the first loop sees it
SlashPath(p) == HasSlash(StripSlash(p))

Mixed(ps) ==
    /\ \E k \in 1..Len(ps) : SlashPath(ps[k])
    /\ \E k \in 1..Len(ps) : ~SlashPath(ps[k])

C20_AsymmetricMixedShape ==
    (Called /\ Mixed(paths)) =>
        IF SlashPath(paths[1])
        THEN result = Raise("AssertionError")
        ELSE /\ ~GroupsOf(paths).failed
             /\ GroupsOf(paths).flag
             /\ (\A k \in 1..Len(KeysOf(paths)) : k \in SingleGroups(paths))
                   => Compact(result)
             /\ Compact(result) =>
                   \A j \in 1..Len(paths) :
                      LET s == split1(StripSlash(paths[j]))
                      IN (SlashPath(paths[j]) /\
                          Suffixes(GroupsOf(paths).patterns, s[1]) = {s[2]})
                         => \E k \in 1..Len(KeysOf(paths)) :
                               /\ KeysOf(paths)[k] = s[1]
                               /\ SplitTop(result.val)[k] = s[1] \o s[2]

\* a bare token first, a slash path after it, and a compact result
C20_Witness ==
    /\ Called /\ Mixed(paths) /\ ~SlashPath(paths[1])
    /\ Compact(result)
    /\ \E j \in 1..Len(paths) :
          /\ SlashPath(paths[j])
          /\ Suffixes(GroupsOf(paths).patterns,
                      split1(StripSlash(paths[j]))[1]) =
                {split1(StripSlash(paths[j]))[2]}

(***************************************************************************)
(* C21.  make_pattern terminates, and the recursive invocations below the  *)
(* outermost call are never nested deeper than the largest number of       *)
(* '/'-separated segments of an input path.  Every recursive invocation    *)
(* receives strings shorter than the longest path of its caller.           *)
(***************************************************************************)
\* the number of '/'-separated segments of a path, leading '/' removed
Segments(p) == Len(SplitOn(StripSlash(p), "/"))

MaxSegments(ps) ==
    IF ps = <<>> THEN 0
    ELSE Max({Segments(ps[k]) : k \in 1..Len(ps)})

\* every list handed to a recursive invocation, at any depth below ps,
\* holds only strings shorter than the longest string of the list above it
RECURSIVE ShrinksBelow(_, _)
ShrinksBelow(ps, env) ==
    LET g == GroupPaths(ps, 1, {}, FALSE)
    IN ~g.failed =>
          \A pre \in Keys(g.patterns) \ {<<>>} :
             LET S == Suffixes(g.patterns, pre)
             IN Cardinality(S) >= 2 =>
                   /\ \A x \in S : \E k \in 1..Len(ps) : Len(x) < Len(ps[k])
                   /\ ShrinksBelow(ListOf(S, Below(env, pre)), Below(env, pre))

C21_DepthBound ==
    Called =>
        /\ result.kind \in {"str", "None", "raise"}
        /\ ShrinksBelow(paths, CurEnv)
        /\ Depth(paths, CurEnv) <= MaxSegments(paths)

\* an input whose recursion is as deep as its paths have segments
C21_Witness ==
    /\ Called
    /\ Depth(paths, CurEnv) >= 2
    /\ Depth(paths, CurEnv) = MaxSegments(paths)

(***************************************************************************)
(* C22.  For every non-negative driver return code CHK returns the code    *)
(* and never raises: code 0 returns at once without any error-text query,  *)
(* a positive code only writes one warning to stderr.  For a positive      *)
(* code the lookups run as for an error, so a lookup that raises, a loop   *)
(* that never binds r, a lookup that leaves a non-ASCII text, and under    *)
(* Python 3 every lookup that succeeds, all end CHK with an exception.     *)
(***************************************************************************)
\* CALL has raised before it called CHK (lines 258, 261, 263)
CallRaised ==
    /\ entry = "CALL"
    /\ outcome \in {"AttributeError", "NameError", "UnicodeEncodeError"}

\* CHK was called and has ended
Checked == chk_pc = "done" /\ ~CallRaised

C22_NonNegativeReturns ==
    (Checked /\ return_code >= 0) =>
        /\ outcome = "return"
        /\ return_code = 0 => (attempts = 0 /\ warnings = 0)
        /\ return_code > 0 => warnings = 1

(***************************************************************************)
(* C23.  The error-text retry loop always terminates: every 'Buffer is     *)
(* too small' error doubles the buffer size, starting from 3000, no pass   *)
(* starts once the size has reached 1,000,000, so at most 9 passes are     *)
(* made; any other RuntimeError ends CHK at once with                      *)
(* NIDAQmxRuntimeError; and CHK comes to an end.                           *)
(***************************************************************************)
RECURSIVE Pow2(_)
Pow2(n) == IF n = 0 THEN 1 ELSE 2 * Pow2(n - 1)

\* the buffer size is 3000 doubled once per pass that did not leave the loop
LoopShape ==
    /\ attempts <= 9
    /\ buf_size > 0 =>
          \E k \in 0..9 :
             /\ buf_size = default_buf_size * Pow2(k)
             /\ k > 0 => default_buf_size * Pow2(k - 1) < BufLimit
             /\ libFound =>
                   attempts = IF chk_pc = "loop" \/ buf_size >= BufLimit
                              THEN k ELSE k + 1

\* a step that ends CHK from inside the loop, a lookup of the driver
\* library having raised, is a pass that raises NIDAQmxRuntimeError, without
\* another retry
LoopLeftByRaise ==
    (chk_pc = "loop" /\ chk_pc' = "done" /\ libFound) =>
        /\ outcome' = "NIDAQmxRuntimeError"
        /\ attempts' = attempts + 1
        /\ buf_size' = buf_size

C23_RetryLoopTerminates ==
    /\ []LoopShape
    /\ [][LoopLeftByRaise]_vars
    /\ <>(chk_pc = "done")

\* the loop has given up after nine passes
C23_Witness ==
    /\ attempts = 9
    /\ buf_size >= BufLimit
    /\ chk_pc \in {"report", "done"}

(***************************************************************************)
(* C26.  When every path of the top-level input contains '/', every        *)
(* recursive invocation receives suffix candidates of uniform shape, so    *)
(* the mixed-shape assertion never fails and no clause loses its '/'.      *)
(* Paths of different depth under one prefix ('D/a1' and 'D/p/l0') hand    *)
(* a bare token and a slash path to the same recursive invocation.         *)
(***************************************************************************)
\* the first loop for ps passes, and so does every one below it, each on
\* strings that all hold a '/' or all hold none
RECURSIVE RecursionUniform(_, _)
RecursionUniform(ps, env) ==
    LET g == GroupPaths(ps, 1, {}, FALSE)
    IN /\ ~g.failed
       /\ \A pre \in Keys(g.patterns) \ {<<>>} :
             LET S == Suffixes(g.patterns, pre)
             IN Cardinality(S) >= 2 =>
                   /\ \/ \A x \in S : SlashPath(x)
                      \/ \A x \in S : ~SlashPath(x)
                   /\ RecursionUniform(ListOf(S, Below(env, pre)),
                                       Below(env, pre))

C26_UniformRecursion ==
    (Called /\ \A k \in 1..Len(paths) : HasSlash(paths[k])) =>
        /\ result.exc # "AssertionError"
        /\ RecursionUniform(paths, CurEnv)

(***************************************************************************)
(* C27.  When the result is not the fallback, the output pattern, with     *)
(* every range 'a:b' expanded to a..b and every braced list expanded,      *)
(* denotes no path that is not an input path (leading '/' removed).  A     *)
(* range is written with str(int(suffix)), which drops leading zeros, and  *)
(* a slash path after a bare token is written without its '/'.             *)
(***************************************************************************)
C27_NoExtraPaths ==
    (Called /\ Compact(result) /\ result.val # <<>>) =>
        LET denoted == ExpandPattern(result.val)
        IN \A i \in 1..Len(denoted) : denoted[i] \in Stripped(paths)

(***************************************************************************)
(* C30.  make_pattern of an empty sequence returns the empty string, not   *)
(* the sentinel and without raising, and `make_pattern(...) or None` in    *)
(* get_info_str then shows None.                                           *)
(***************************************************************************)
C30_EmptyInput ==
    (Called /\ paths = <<>>) =>
        /\ result = RetStr(<<>>)
        /\ OrNone(result) = RetNone

\* the call on the empty sequence has returned
C30_Witness ==
    /\ Called /\ paths = <<>>
    /\ result.kind = "str"
    /\ pc = "called"

(***************************************************************************)
(* Claims about a Task, under SpecTask.                                    *)
(***************************************************************************)
TaskTypeOK ==
    /\ channel_type \in {"None"} \cup Types
    /\ cache \in [Kinds -> Funcs \cup {"None"}]
    /\ value \in {0, 1}
    /\ cleared \in 0..(MaxClears + 1)
    /\ Len(drv) <= 2
    /\ tpc \in {"new", "live", "failed", "deleted"}
    /\ op.name \in {"-", "init", "set", "register", "clear", "del"}

\* with the driver library, the last operation registered a function of
\* valid signature over a cached callback of its kind, on a task that has a
\* channel type, and CHK raised on none of its calls
RegisteredOver ==
    /\ libFound
    /\ op.name = "register" /\ op.arg # "None"
    /\ ValidSignature(op.kind, op.arg)
    /\ before # "None"
    /\ channel_type # "None"
    /\ ~op.refused

\* C24: each register_*_event method, called with a function of valid
\* signature while a callback of its kind is cached, first sends the driver
\* an unregistering call (callback None), then the registering call, and
\* returns without raising with the new callback in the cache.
C24_ReplaceCallback ==
    RegisteredOver =>
        /\ op.exc = "-"
        /\ drv = << <<op.kind, "None">>, <<op.kind, op.arg>> >>
        /\ cache[op.kind] = op.arg

\* a step keeps a channel type that is set
ChannelTypeKept == channel_type # "None" => channel_type' = channel_type

\* _set_channel_type(t) with a valid t on a task whose type was set: the
\* same type passes, another type raises ValueError, the type stays
SetOutcome ==
    (op.name = "set" /\ before # "None" /\ op.arg \in Types) =>
        /\ channel_type = before
        /\ op.exc = IF op.arg = before THEN "-" ELSE "ValueError"

\* C25: once channel_type is not None, no sequence of _set_channel_type
\* calls changes it: a call with the same type does nothing, a call with a
\* different valid type raises ValueError and leaves the type unchanged.
C25_ChannelTypeStable == [][ChannelTypeKept]_vars /\ []SetOutcome

\* a call with a different valid type raised ValueError on a typed task
C25_Witness ==
    /\ op.name = "set" /\ before # "None" /\ op.arg \in Types
    /\ op.arg # before /\ op.exc = "ValueError" /\ channel_type = before

\* with the driver library, the last operation passed a function of invalid
\* signature to a register_*_event method that could reach its signature
\* test
RegisteredInvalid ==
    /\ libFound
    /\ op.name = "register" /\ op.arg # "None"
    /\ ~ValidSignature(op.kind, op.arg)
    /\ (op.kind = "every_n_samples" => channel_type # "None")

\* C28: a register_*_event method called with a function of invalid
\* signature raises ValueError and leaves the registration as it was: the
\* cached callback is still cached and no unregistering call was sent.
C28_InvalidSignatureLeavesState ==
    RegisteredInvalid =>
        /\ op.exc = "ValueError"
        /\ cache[op.kind] = before
        /\ drv = <<>>

\* C29: over any sequence of clear() calls and the final __del__,
\* DAQmxClearTask is invoked at most once for a handle, and never while the
\* handle value is 0.
C29_ClearedAtMostOnce ==
    /\ cleared <= 1
    /\ value = 0 => cleared = 0

====
